---- MODULE Spec2Model ----
(***************************************************************************)
(* Model of the OpenAI-compatible gateway in src/main.py: credential       *)
(* resolution (get_api_key), the chat-completions handler                  *)
(* (create_chat_completion), the non-streaming backend call                *)
(* (bridge_request_json, transform_response_to_openai) and the streaming   *)
(* re-framer (bridge_request_stream).                                      *)
(*                                                                         *)
(* Text is a sequence of one-character strings.  The upstream body is a    *)
(* sequence of bytes: an ASCII byte is written as its character, the two   *)
(* bytes of the UTF-8 encoding of U+00E9 are xC3 and xA9.                  *)
(***************************************************************************)
EXTENDS Integers, Sequences, FiniteSets, TLC

VARIABLES
    authorization,    \* Authorization header of the request, or None
    x_api_key,        \* X-API-Key header of the request, or None
    default_api_key,  \* DEFAULT_API_KEY of the process
    request,          \* ChatCompletionRequest: [model, stream]
    pc,               \* position of the exchange
    api_key,          \* credential returned by get_api_key
    caller_status,    \* status line sent to the caller, 0 while none is sent
    stream_started,   \* the StreamingResponse has sent its start to the caller
    backend_calls,    \* number of session.post calls issued
    backend_status,   \* resp.status of the backend, 0 while unknown
    bridge_body,      \* body the backend returns on the non-streaming path
    json_response,    \* <<PublicResponse>> once JSONResponse is returned
    upstream,         \* all bytes the backend sends on the streaming path
    pos,              \* number of bytes of upstream read so far
    buffer,           \* bridge_request_stream's text buffer
    out,              \* lines yielded by bridge_request_stream
    payload,          \* JSON body of the session.post call
    conn_open,        \* the ClientSession and response of the exchange are open
    error_detail,     \* detail of the HTTPException raised, <<>> while none
    logged,           \* error body excerpt given to logger.error
    peer              \* the exchange handled at the same time, suspended

vars == <<authorization, x_api_key, default_api_key, request, pc, api_key,
          caller_status, stream_started, backend_calls, backend_status,
          bridge_body, json_response, upstream, pos, buffer, out, payload,
          conn_open, error_detail, logged, peer>>

(***************************************************************************)
(* Bounds                                                                  *)
(***************************************************************************)
MaxKeyLen == 2     \* longest header value tail that is enumerated
MaxLines == 2      \* newline-terminated lines of an upstream body
MaxBytes == 34     \* longest upstream body that is enumerated

(***************************************************************************)
(* Characters and bytes                                                    *)
(***************************************************************************)
SP == " "
NL == "\n"
CR == "\r"
QT == "\""
xC3 == "xC3"          \* first byte of U+00E9 in UTF-8
xA9 == "xA9"          \* continuation byte of U+00E9 in UTF-8
EACUTE == "U+00E9"    \* the decoded character
REPL == "U+FFFD"      \* the replacement character of errors="replace"
Whitespace == {SP, NL, CR}   \* the characters str.strip() removes, of those modelled

None == <<"<None>">>  \* Python's None for an Optional[str]
Absent == "<absent>"  \* a key a decoded JSON object does not have
Null == "<null>"      \* Python's None as a JSON value

(***************************************************************************)
(* str methods used by the source                                          *)
(***************************************************************************)
RECURSIVE lstrip(_)
lstrip(s) ==
    IF s # <<>> /\ Head(s) \in Whitespace THEN lstrip(Tail(s)) ELSE s

RECURSIVE rstrip(_)
rstrip(s) ==
    IF s # <<>> /\ s[Len(s)] \in Whitespace
    THEN rstrip(SubSeq(s, 1, Len(s) - 1))
    ELSE s

strip(s) == rstrip(lstrip(s))

startswith(s, p) == Len(s) >= Len(p) /\ SubSeq(s, 1, Len(p)) = p

DropFirst(s, n) == SubSeq(s, n + 1, Len(s))          \* s[n:]

Contains(s, c) == \E i \in 1..Len(s) : s[i] = c      \* c in s

FirstIndex(s, c) == CHOOSE i \in 1..Len(s) :
                        s[i] = c /\ \A j \in 1..(i - 1) : s[j] # c

\* buffer.split("\n", 1) of a buffer that has a newline
SplitHead(s) == SubSeq(s, 1, FirstIndex(s, NL) - 1)
SplitRest(s) == DropFirst(s, FirstIndex(s, NL))

BEARER == <<"B", "e", "a", "r", "e", "r", SP>>
BEARER_NOSP == <<"B", "e", "a", "r", "e", "r">>
BEARER_LC == <<"b", "e", "a", "r", "e", "r", SP>>

(***************************************************************************)
(* get_api_key                                                             *)
(***************************************************************************)
Truthy(s) == s # None /\ s # <<>>

\* get_api_key with the two tests in the other order
get_api_key_bearer_first(auth, xkey, dflt) ==
    IF Truthy(auth) /\ startswith(auth, BEARER)
    THEN [ok |-> TRUE, key |-> strip(DropFirst(auth, 7))]
    ELSE IF Truthy(xkey) /\ strip(xkey) # <<>>
    THEN [ok |-> TRUE, key |-> strip(xkey)]
    ELSE IF dflt # <<>>
    THEN [ok |-> TRUE, key |-> dflt]
    ELSE [ok |-> FALSE, key |-> <<>>]

get_api_key(auth, xkey, dflt) ==
    IF Truthy(xkey) /\ strip(xkey) # <<>>
    THEN [ok |-> TRUE, key |-> strip(xkey)]
    ELSE IF Truthy(auth) /\ startswith(auth, BEARER)
    THEN [ok |-> TRUE, key |-> strip(DropFirst(auth, 7))]
    ELSE IF dflt # <<>>
    THEN [ok |-> TRUE, key |-> dflt]
    ELSE [ok |-> FALSE, key |-> <<>>]

(***************************************************************************)
(* Program constants                                                       *)
(***************************************************************************)
MODEL_NAME == "deepseek-v3"
BRIDGE_MODEL == "deepseek-ai/DeepSeek-V3-0324"
PREFIX == <<"d", "a", "t", "a", ":", SP>>            \* "data: "
T_DONE == <<"[", "D", "O", "N", "E", "]">>           \* "[DONE]"
chunk_id == "chatcmpl-<uuid4>"      \* the id generated for the exchange
created == "<now>"                  \* the timestamp taken for the exchange

(***************************************************************************)
(* Payload texts of the modelled event lines, and the bytes that carry     *)
(* them.  Only B_ID differs from its text: it holds a two-byte character.  *)
(***************************************************************************)
T_BAD == <<"{">>
T_NUM == <<"5">>
T_EMPTY == <<"{", "}">>
T_MODEL == <<"{", QT, "m", "o", "d", "e", "l", QT, ":", QT, "b", QT, "}">>
T_ID == <<"{", QT, "i", "d", QT, ":", QT, EACUTE, QT, "}">>
T_ID_REPL == <<"{", QT, "i", "d", QT, ":", QT, REPL, REPL, QT, "}">>
T_CH5 == <<"{", QT, "c", "h", "o", "i", "c", "e", "s", QT, ":", "[", "5", "]", "}">>
T_FIN == <<"{", QT, "f", "i", "n", "i", "s", "h", "_", "r", "e", "a", "s", "o", "n",
           QT, ":", QT, "s", "t", "o", "p", QT, "}">>
T_CHOICE == <<"{", QT, "c","h","o","i","c","e","s", QT, ":", "[", "{", QT,
              "d","e","l","t","a", QT, ":", "{", QT,
              "c","o","n","t","e","n","t", QT, ":", QT, "h", QT, "}", ",", QT,
              "f","i","n","i","s","h","_","r","e","a","s","o","n", QT, ":",
              QT, "s","t","o","p", QT, "}", "]", "}">>
                      \* {"choices":[{"delta":{"content":"h"},"finish_reason":"stop"}]}
T_NOCHOICE == <<"{", QT, "c","h","o","i","c","e","s", QT, ":", "[", "]", "}">>
                      \* {"choices":[]}
B_ID == <<"{", QT, "i", "d", QT, ":", QT, xC3, xA9, QT, "}">>

(***************************************************************************)
(* chunk.decode("utf-8", errors="replace")                                 *)
(***************************************************************************)
\* what the byte at position i of b contributes to the decoded text
decoded_at(b, i) ==
    IF b[i] = xC3
    THEN IF i < Len(b) /\ b[i + 1] = xA9 THEN <<EACUTE>> ELSE <<REPL>>
    ELSE IF b[i] = xA9
    THEN IF i > 1 /\ b[i - 1] = xC3 THEN <<>> ELSE <<REPL>>
    ELSE <<b[i]>>

RECURSIVE decode_range(_, _, _)
decode_range(b, lo, hi) ==
    IF lo > hi THEN <<>>
    ELSE IF lo = hi THEN decoded_at(b, lo)
    ELSE LET mid == (lo + hi) \div 2
         IN  decode_range(b, lo, mid) \o decode_range(b, mid + 1, hi)

decode(b) == decode_range(b, 1, Len(b))

(***************************************************************************)
(* json.loads, on the payload texts above; any other text that the         *)
(* modelled bodies can put on a line is not JSON.                          *)
(***************************************************************************)
JObject(id, crt, model, fin, ck, chs) ==
    [kind |-> "object", id |-> id, created |-> crt, model |-> model,
     finish_reason |-> fin, choices_kind |-> ck, choices |-> chs]

JEmpty == JObject(Absent, Absent, Absent, Absent, "absent", <<>>)
JNumber == [JEmpty EXCEPT !.kind = "number"]
JSONDecodeError == [JEmpty EXCEPT !.kind = "error"]

ChoiceNumber == [kind |-> "number", delta |-> Absent, finish_reason |-> Absent]
ChoiceEmpty == [kind |-> "object", delta |-> Absent, finish_reason |-> Absent]
DeltaH == "{\"content\": \"h\"}"
ChoiceStop == [kind |-> "object", delta |-> DeltaH, finish_reason |-> "stop"]

json_loads(text) ==
    CASE text = T_EMPTY   -> JEmpty
      [] text = T_MODEL   -> [JEmpty EXCEPT !.model = "b"]
      [] text = T_ID      -> [JEmpty EXCEPT !.id = "U+00E9"]
      [] text = T_ID_REPL -> [JEmpty EXCEPT !.id = "U+FFFD U+FFFD"]
      [] text = T_FIN     -> [JEmpty EXCEPT !.finish_reason = "stop"]
      [] text = T_CH5     -> [JEmpty EXCEPT !.choices_kind = "list",
                                            !.choices = <<ChoiceNumber>>]
      [] text = T_CHOICE  -> [JEmpty EXCEPT !.choices_kind = "list",
                                            !.choices = <<ChoiceStop>>]
      [] text = T_NOCHOICE -> [JEmpty EXCEPT !.choices_kind = "list"]
      [] text = T_NUM     -> JNumber
      [] OTHER            -> JSONDecodeError

(***************************************************************************)
(* The public chunk of lines 172-183 and 192-201                           *)
(***************************************************************************)
Sentinel == [type |-> "done", id |-> "", created |-> "", model |-> "",
             delta |-> "", finish_reason |-> ""]        \* "data: [DONE]\n\n"

\* dict.get(key, default) on a decoded object
get(value, dflt) == IF value = Absent THEN dflt ELSE value

\* chunk_data.get("choices", [{}])
get_choices(chunk_data) ==
    IF chunk_data.choices_kind = "absent" THEN <<ChoiceEmpty>>
    ELSE chunk_data.choices

\* the statements before the dict literal raise AttributeError
raises_AttributeError(chunk_data) ==
    \/ chunk_data.kind # "object"
    \/ /\ get_choices(chunk_data) # <<>>
       /\ get_choices(chunk_data)[1].kind # "object"

get_delta(chunk_data) ==
    IF get_choices(chunk_data) # <<>>
    THEN get(get_choices(chunk_data)[1].delta, "{}")
    ELSE "{}"

\* "model" taken from the backend event when it has one
chunk_model_backend(chunk_data, request_model) ==
    get(chunk_data.model, request_model)

\* "model": request_model
chunk_model(chunk_data, request_model) == request_model

\* "finish_reason": chunk_data.get("finish_reason")  (line 180)
loop_finish_reason(chunk_data) == get(chunk_data.finish_reason, Null)

\* the remainder's chunk repeating the loop's finish_reason
tail_finish_reason_decoded(chunk_data) == get(chunk_data.finish_reason, Null)

\* "finish_reason": None  (line 199)
tail_finish_reason(chunk_data) == Null

openai_chunk(chunk_data, request_model, fin) ==
    [type |-> "chunk",
     id |-> get(chunk_data.id, chunk_id),
     created |-> get(chunk_data.created, created),
     model |-> chunk_model(chunk_data, request_model),
     delta |-> get_delta(chunk_data),
     finish_reason |-> fin]

(***************************************************************************)
(* One iteration of the while loop (lines 161-185) on the extracted line,  *)
(* and the handling of the remainder (lines 187-203).                      *)
(***************************************************************************)
Step(act) == [act |-> act, line |-> Sentinel]
StepChunk(c) == [act |-> "chunk", line |-> c]

\* a decode failure that is not caught
except_JSONDecodeError_missing == "raise"

\* except json.JSONDecodeError: pass
except_JSONDecodeError == "skip"

LineStep(raw, request_model) ==
    LET line == strip(raw)
        data_str == strip(DropFirst(line, 6))
        chunk_data == json_loads(data_str)
    IN  IF line = <<>> \/ ~startswith(line, PREFIX) THEN Step("skip")
        ELSE IF data_str = T_DONE THEN Step("done")
        ELSE IF chunk_data = JSONDecodeError THEN Step(except_JSONDecodeError)
        ELSE IF raises_AttributeError(chunk_data) THEN Step("raise")
        ELSE StepChunk(openai_chunk(chunk_data, request_model,
                                    loop_finish_reason(chunk_data)))

TailStep(buf, request_model) ==
    LET line == strip(buf)
        data_str == strip(DropFirst(line, 6))
        chunk_data == json_loads(data_str)
    IN  IF ~startswith(line, PREFIX) THEN Step("skip")
        ELSE IF data_str = <<>> \/ data_str = T_DONE THEN Step("skip")
        ELSE IF chunk_data = JSONDecodeError THEN Step(except_JSONDecodeError)
        ELSE IF raises_AttributeError(chunk_data) THEN Step("raise")
        ELSE StepChunk(openai_chunk(chunk_data, request_model,
                                    tail_finish_reason(chunk_data)))

\* position of the generator after a loop iteration, without the return
LoopPc_no_return(act, rest) ==
    IF act = "raise" THEN "crashed"
    ELSE IF Contains(rest, NL) THEN "loop" ELSE "read"

\* position of the generator when the loop takes one line for each fragment
LoopPc_one_line(act, rest) ==
    CASE act = "done"  -> "returned"
      [] act = "raise" -> "crashed"
      [] OTHER         -> "read"

\* position of the generator after a loop iteration
LoopPc(act, rest) ==
    CASE act = "done"  -> "returned"
      [] act = "raise" -> "crashed"
      [] OTHER         -> IF Contains(rest, NL) THEN "loop" ELSE "read"

\* a chunk that is yielded a second time
Emit_twice(o, step) ==
    IF step.act = "done" THEN Append(o, Sentinel)
    ELSE IF step.act = "chunk" THEN Append(Append(o, step.line), step.line)
    ELSE o

\* yield "data: [DONE]\n\n" (line 167); yield f"data: {...}\n\n" (lines 183, 201)
Emit(o, step) ==
    IF step.act = "done" THEN Append(o, Sentinel)
    ELSE IF step.act = "chunk" THEN Append(o, step.line)
    ELSE o

(***************************************************************************)
(* transform_response_to_openai                                            *)
(***************************************************************************)
UsageKeys == {"prompt_tokens", "completion_tokens", "total_tokens"}

BObject(id, model, ck, chs, usage) ==
    [kind |-> "object", id |-> id, model |-> model, choices_kind |-> ck,
     choices |-> chs, usage |-> usage]

MessageChoice(content, fin) ==
    [kind |-> "object", content |-> content, finish_reason |-> fin]

NoUsage == [k \in {} |-> 0]

usage_get(usage, key) == IF key \in DOMAIN usage THEN usage[key] ELSE 0

\* resp.json() fails, or a statement of the translator raises
transform_raises(bridge_data) ==
    \/ bridge_data.kind # "object"
    \/ /\ bridge_data.choices # <<>>
       /\ bridge_data.choices[1].kind # "object"

\* "model" taken from the backend body when it has one
response_model_backend(bridge_data, request_model) ==
    get(bridge_data.model, request_model)

\* "model": request_model
response_model(bridge_data, request_model) == request_model

\* the finish reason the backend reported for the first choice
response_finish_reason_backend(bridge_data) ==
    IF bridge_data.choices # <<>>
    THEN get(bridge_data.choices[1].finish_reason, "stop")
    ELSE "stop"

\* "finish_reason": "stop"  (line 224)
response_finish_reason(bridge_data) == "stop"

transform_response_to_openai(bridge_data, request_model) ==
    [id |-> get(bridge_data.id, chunk_id),
     object |-> "chat.completion",
     model |-> response_model(bridge_data, request_model),
     content |-> IF bridge_data.choices # <<>>
                 THEN get(bridge_data.choices[1].content, "")
                 ELSE "",
     finish_reason |-> response_finish_reason(bridge_data),
     usage |-> [k \in UsageKeys |-> usage_get(bridge_data.usage, k)]]

(***************************************************************************)
(* ChatCompletionRequest (lines 62-79): the validated request built from   *)
(* the caller's JSON body.  A key the caller leaves out is Absent in the   *)
(* body and takes the field's default.                                     *)
(***************************************************************************)
ChatMessage(role, content, name) ==
    [role |-> role, content |-> content, name |-> name]

CallerBody(model, stream, temperature, max_tokens, messages) ==
    [model |-> model, stream |-> stream, temperature |-> temperature,
     max_tokens |-> max_tokens, messages |-> messages]

DEFAULT_TEMPERATURE == "0.7"

ChatCompletionRequest(body) ==
    [model |-> body.model,
     stream |-> body.stream,
     temperature |-> IF body.temperature = Absent THEN DEFAULT_TEMPERATURE
                     ELSE body.temperature,
     max_tokens |-> IF body.max_tokens = Absent THEN Null
                    ELSE body.max_tokens,
     messages |-> body.messages,
     fields_set |-> {"model", "stream", "messages"}
                    \cup (IF body.temperature = Absent THEN {}
                          ELSE {"temperature"})
                    \cup (IF body.max_tokens = Absent THEN {}
                          ELSE {"max_tokens"})]

(***************************************************************************)
(* The backend payload (lines 98-107, 134-143, 262)                        *)
(***************************************************************************)
\* line 262: [{"role": m.role, "content": m.content} for m in ...]
role_content(messages) ==
    [i \in 1..Len(messages) |->
        [role |-> messages[i].role, content |-> messages[i].content]]

\* a key of the payload that is set only "if ... is not None"
optional_key(value) == IF value = Null THEN Absent ELSE value

bridge_payload(messages, stream, temperature, max_tokens) ==
    [messages |-> messages,
     model |-> BRIDGE_MODEL,
     stream |-> stream,
     temperature |-> optional_key(temperature),
     max_tokens |-> optional_key(max_tokens)]

NoPayload == [messages |-> <<>>, model |-> "", stream |-> FALSE,
              temperature |-> Absent, max_tokens |-> Absent]

(***************************************************************************)
(* Backend errors (lines 111-114, 147-150, 57, 292)                        *)
(***************************************************************************)
LogLimit == 500

Text(n) == [i \in 1..n |-> "e"]

truncate(text) == SubSeq(text, 1, IF Len(text) < LogLimit THEN Len(text)
                                  ELSE LogLimit)                \* text[:500]

KeyRequiredDetail ==
    <<"A", "P", "I", SP, "k", "e", "y", SP, "i", "s", SP, "r", "e", "q", 
      "u", "i", "r", "e", "d", SP, "(", "A", "u", "t", "h", "o", "r", "i", 
      "z", "a", "t", "i", "o", "n", ":", SP, "B", "e", "a", "r", "e", "r", 
      SP, "<", "k", "e", "y", ">", SP, "o", "r", SP, "X", "-", "A", "P", 
      "I", "-", "K", "e", "y", ")">>
BridgeErrorDetail ==
    <<"B", "r", "i", "d", "g", "e", SP, "e", "r", "r", "o", "r">>
InternalErrorDetail ==
    <<"I", "n", "t", "e", "r", "n", "a", "l", SP, "s", "e", "r", "v", "e", 
      "r", SP, "e", "r", "r", "o", "r">>

\* detail=err_text or "Bridge error"
bridge_error_detail(err_text) ==
    IF err_text = <<>> THEN BridgeErrorDetail ELSE err_text

\* the backend's status replaced by the generic internal failure
json_error_status_internal(status) == 500

\* HTTPException(status_code=resp.status), re-raised at lines 288-289
json_error_status(status) == status

\* the connection released only when the exchange runs to its end
conn_after_leaky(pc_next) == pc_next \notin {"done", "responded"}

\* the two "async with" blocks (lines 109-110, 145-146) are left on every
\* way out of the function
conn_after(pc_next) == pc_next \in {"read", "loop", "final"}

\* a failure of get_api_key that does not end the exchange
after_get_api_key_ignored(ok) == "authed"

\* line 260 is outside the try: the HTTPException ends the handler
after_get_api_key(ok) == IF ok THEN "authed" ELSE "failed"

(***************************************************************************)
(* Inputs                                                                  *)
(***************************************************************************)
SeqsUpTo(S, n) == UNION {[1..k -> S] : k \in 0..n}

HeaderTails == SeqsUpTo({SP, "k"}, MaxKeyLen)
AuthValues ==
    {None} \cup {p \o t : p \in {<<>>, BEARER, BEARER_NOSP, BEARER_LC},
                          t \in HeaderTails}
KeyValues == {None} \cup HeaderTails
DefaultKeys == {<<>>, <<"d", "k">>}

Models == {MODEL_NAME, "gpt-4o"}
Hi == <<ChatMessage("user", "hi", Null)>>
HiNamed == <<ChatMessage("system", "be brief", Null),
             ChatMessage("user", "hi", "bob")>>
Requests ==
    {ChatCompletionRequest(CallerBody(m, s, Absent, Absent, Hi)) :
        m \in Models, s \in BOOLEAN}
ParamRequests ==
    {ChatCompletionRequest(CallerBody(MODEL_NAME, s, t, n, ms)) :
        s \in BOOLEAN, t \in {Absent, Null, "0.2"},
        n \in {Absent, Null, "16"}, ms \in {Hi, HiNamed}}
StreamRequest ==
    ChatCompletionRequest(CallerBody("gpt-4o", TRUE, Absent, Absent, Hi))

BackendStatuses == {200, 201, 404, 500}
ErrorTexts == {Text(n) : n \in {0, 1, LogLimit, LogLimit + 1}}

L_COMMENT == <<":", "k">>
L_STRIP == <<SP>> \o PREFIX \o <<SP>> \o T_EMPTY \o <<CR>>
Lines == {<<>>, L_COMMENT, L_STRIP, PREFIX \o T_DONE, PREFIX \o T_BAD,
          PREFIX \o T_NUM, PREFIX \o T_MODEL, PREFIX \o B_ID,
          PREFIX \o T_CH5, PREFIX \o T_FIN}

RECURSIVE JoinLines(_)
JoinLines(ls) ==
    IF ls = <<>> THEN <<>> ELSE Head(ls) \o <<NL>> \o JoinLines(Tail(ls))

Streams ==
    {b \in {JoinLines(ls) \o rem : ls \in SeqsUpTo(Lines, MaxLines),
                                   rem \in Lines} : Len(b) <= MaxBytes}

\* bodies of one event line with a choices list
EventStreams == {PREFIX \o T_CHOICE \o <<NL>>, PREFIX \o T_NOCHOICE \o <<NL>>}

\* {"id": "b-1", "model": ..., "choices": [{"message": {"content": "hello"},
\* "finish_reason": "length"}], "usage": {3, 1, 4}}
HelloBody ==
    BObject("b-1", BRIDGE_MODEL, "list", <<MessageChoice("hello", "length")>>,
            [k \in UsageKeys |-> CASE k = "prompt_tokens" -> 3
                                   [] k = "completion_tokens" -> 1
                                   [] OTHER -> 4])

Bodies ==
    {HelloBody,
     BObject(Absent, Absent, "absent", <<>>, NoUsage),
     BObject(Absent, BRIDGE_MODEL, "list", <<>>,
             [k \in {"prompt_tokens"} |-> 3]),
     BObject(Absent, Absent, "list", <<[MessageChoice(Absent, Absent)
                                        EXCEPT !.kind = "number"]>>, NoUsage),
     [BObject(Absent, Absent, "absent", <<>>, NoUsage) EXCEPT !.kind = "number"],
     [BObject(Absent, Absent, "absent", <<>>, NoUsage) EXCEPT !.kind = "invalid"]}

SomeBody == BObject(Absent, Absent, "absent", <<>>, NoUsage)
SomeStream == PREFIX \o T_EMPTY \o <<NL>>
SomeKey == <<"k">>

(***************************************************************************)
(* Init: one exchange about to enter create_chat_completion.  The inputs   *)
(* come in families: all header combinations, all upstream bodies, all     *)
(* non-streaming backend bodies, all request parameters.                   *)
(***************************************************************************)
InitHeaders ==
    /\ authorization \in AuthValues
    /\ x_api_key \in KeyValues
    /\ default_api_key \in DefaultKeys
    /\ request \in Requests
    /\ upstream = SomeStream
    /\ bridge_body = SomeBody

InitStreams ==
    /\ authorization = None
    /\ x_api_key = SomeKey
    /\ default_api_key = <<>>
    /\ request = StreamRequest
    /\ upstream \in Streams
    /\ bridge_body = SomeBody

InitEvents ==
    /\ authorization = None
    /\ x_api_key = SomeKey
    /\ default_api_key = <<>>
    /\ request = StreamRequest
    /\ upstream \in EventStreams
    /\ bridge_body = SomeBody

InitBodies ==
    /\ authorization = None
    /\ x_api_key = SomeKey
    /\ default_api_key = <<>>
    /\ request \in {r \in Requests : ~r.stream}
    /\ upstream = SomeStream
    /\ bridge_body \in Bodies

InitParams ==
    /\ authorization = None
    /\ x_api_key = SomeKey
    /\ default_api_key = <<>>
    /\ request \in ParamRequests
    /\ upstream = SomeStream
    /\ bridge_body = SomeBody

\* the state of an exchange that has not entered the handler
InitExchange ==
    /\ pc = "start"
    /\ api_key = <<>>
    /\ caller_status = 0
    /\ stream_started = FALSE
    /\ backend_calls = 0
    /\ backend_status = 0
    /\ json_response = <<>>
    /\ pos = 0
    /\ buffer = <<>>
    /\ out = <<>>
    /\ payload = NoPayload
    /\ conn_open = FALSE
    /\ error_detail = <<>>
    /\ logged = <<>>

NoPeer == [pc |-> "none"]

Init ==
    /\ InitHeaders \/ InitStreams \/ InitEvents \/ InitBodies \/ InitParams
    /\ InitExchange
    /\ peer = NoPeer

inputs == <<authorization, x_api_key, default_api_key, request, upstream,
            bridge_body>>
stream_state == <<pos, buffer, out>>
backend_call == <<backend_calls, backend_status, payload, conn_open>>
failure == <<error_detail, logged>>

(***************************************************************************)
(* create_chat_completion                                                  *)
(***************************************************************************)
\* line 260: api_key = get_api_key(authorization, x_api_key)
GetApiKey ==
    /\ pc = "start"
    /\ LET r == get_api_key(authorization, x_api_key, default_api_key)
       IN  /\ pc' = after_get_api_key(r.ok)
           /\ IF r.ok
              THEN /\ api_key' = r.key
                   /\ caller_status' = caller_status
                   /\ error_detail' = error_detail
              ELSE /\ api_key' = api_key
                   /\ caller_status' = 401
                   /\ error_detail' = KeyRequiredDetail
    /\ UNCHANGED <<inputs, stream_state, stream_started, backend_call,
                   json_response, logged, peer>>

\* lines 265-277: the generator object is created, not started, and is
\* handed to StreamingResponse, which sends the response start (status 200,
\* text/event-stream) before it asks the generator for its first line
StartStreaming ==
    /\ pc = "authed"
    /\ request.stream
    /\ pc' = "gen_created"
    /\ caller_status' = 200
    /\ stream_started' = TRUE
    /\ UNCHANGED <<inputs, stream_state, api_key, backend_call,
                   json_response, failure, peer>>

\* lines 278-292 with bridge_request_json (lines 93-115)
NonStreaming ==
    /\ pc = "authed"
    /\ ~request.stream
    /\ payload' = bridge_payload(role_content(request.messages), FALSE,
                                 request.temperature, request.max_tokens)
    /\ backend_calls' = backend_calls + 1
    /\ \E status \in BackendStatuses :
         /\ backend_status' = status
         /\ IF status # 200 /\ status # 201
            THEN \E err_text \in ErrorTexts :
                   /\ pc' = "failed"
                   /\ caller_status' = json_error_status(status)
                   /\ error_detail' = bridge_error_detail(err_text)
                   /\ logged' = truncate(err_text)
                   /\ json_response' = json_response
            ELSE IF transform_raises(bridge_body)
            THEN /\ pc' = "failed"
                 /\ caller_status' = 500
                 /\ error_detail' = InternalErrorDetail
                 /\ logged' = logged
                 /\ json_response' = json_response
            ELSE /\ pc' = "responded"
                 /\ caller_status' = 200
                 /\ UNCHANGED failure
                 /\ json_response' =
                      <<transform_response_to_openai(bridge_body, request.model)>>
    /\ conn_open' = conn_after(pc')
    /\ UNCHANGED <<inputs, stream_state, api_key, stream_started, peer>>

(***************************************************************************)
(* bridge_request_stream                                                   *)
(***************************************************************************)
\* lines 129-154: the first step of the generator, run when the response
\* asks for the first line
Handshake ==
    /\ pc = "gen_created"
    /\ payload' = bridge_payload(role_content(request.messages), TRUE,
                                 request.temperature, request.max_tokens)
    /\ backend_calls' = backend_calls + 1
    /\ \E status \in BackendStatuses :
         /\ backend_status' = status
         /\ IF status # 200 /\ status # 201
            THEN \E err_text \in ErrorTexts :
                   /\ pc' = "aborted"
                   /\ error_detail' = bridge_error_detail(err_text)
                   /\ logged' = truncate(err_text)
            ELSE /\ pc' = "read"
                 /\ UNCHANGED failure
    /\ conn_open' = conn_after(pc')
    /\ UNCHANGED <<inputs, stream_state, api_key, caller_status,
                   stream_started, json_response, peer>>

\* lines 156-159: the next fragment arrives; it holds any number of the
\* bytes still to come, and an empty one is passed over
ReadChunk ==
    /\ pc = "read"
    /\ pos < Len(upstream)
    /\ \E n \in 0..(Len(upstream) - pos) :
         /\ pos' = pos + n
         /\ buffer' = buffer \o decode(SubSeq(upstream, pos + 1, pos + n))
         /\ pc' = IF Contains(buffer', NL) THEN "loop" ELSE "read"
    /\ UNCHANGED <<inputs, out, api_key, caller_status, stream_started,
                   backend_call, json_response, failure, peer>>

\* lines 160-185: one iteration of the while loop
ProcessLine ==
    /\ pc = "loop"
    /\ LET step == LineStep(SplitHead(buffer), request.model)
       IN  /\ buffer' = SplitRest(buffer)
           /\ out' = Emit(out, step)
           /\ pc' = LoopPc(step.act, buffer')
    /\ conn_open' = conn_after(pc')
    /\ UNCHANGED <<inputs, pos, api_key, caller_status, stream_started,
                   backend_calls, backend_status, payload, json_response,
                   failure, peer>>

\* lines 187-203: the upstream has ended
EndOfStream ==
    /\ pc = "read"
    /\ pos = Len(upstream)
    /\ LET step == TailStep(buffer, request.model)
       IN  /\ out' = Emit(out, step)
           /\ pc' = IF step.act = "raise" THEN "crashed" ELSE "final"
    /\ conn_open' = conn_after(pc')
    /\ UNCHANGED <<inputs, pos, buffer, api_key, caller_status,
                   stream_started, backend_calls, backend_status, payload,
                   json_response, failure, peer>>

\* line 204
FinalSentinel ==
    /\ pc = "final"
    /\ out' = Append(out, Sentinel)
    /\ pc' = "done"
    /\ conn_open' = conn_after(pc')
    /\ UNCHANGED <<inputs, pos, buffer, api_key, caller_status,
                   stream_started, backend_calls, backend_status, payload,
                   json_response, failure, peer>>

\* the caller disconnects and the response closes the generator: the
\* pending await or yield raises inside the "async with" blocks
ConsumerClose ==
    /\ pc \in {"read", "loop", "final"}
    /\ pc' = "closed"
    /\ conn_open' = conn_after(pc')
    /\ UNCHANGED <<inputs, stream_state, api_key, caller_status,
                   stream_started, backend_calls, backend_status, payload,
                   json_response, failure, peer>>

Next ==
    \/ GetApiKey
    \/ StartStreaming
    \/ NonStreaming
    \/ Handshake
    \/ ReadChunk
    \/ ProcessLine
    \/ EndOfStream
    \/ FinalSentinel
    \/ ConsumerClose

Spec == Init /\ [][Next]_vars

(***************************************************************************)
(* Two exchanges on one event loop.  The variables above are those of the  *)
(* exchange that is running; peer holds those of the exchange that is      *)
(* suspended at an await or a yield (lines 109, 145, 156, 167, 183, 201,   *)
(* 204, 278).  DEFAULT_API_KEY is the one value of the process.            *)
(***************************************************************************)
Self ==
    [authorization |-> authorization,
     x_api_key |-> x_api_key,
     request |-> request,
     upstream |-> upstream,
     bridge_body |-> bridge_body,
     pc |-> pc,
     api_key |-> api_key,
     caller_status |-> caller_status,
     stream_started |-> stream_started,
     backend_calls |-> backend_calls,
     backend_status |-> backend_status,
     json_response |-> json_response,
     pos |-> pos,
     buffer |-> buffer,
     out |-> out,
     payload |-> payload,
     conn_open |-> conn_open,
     error_detail |-> error_detail,
     logged |-> logged]

\* a buffer that is one object of the module, used by every exchange
resumed_buffer_shared(own, running) == running

\* buffer = ""  (line 154): a local of each call of the generator
resumed_buffer(own, running) == own

\* the event loop resumes the other exchange
Switch ==
    /\ peer # NoPeer
    /\ peer' = [Self EXCEPT !.buffer = resumed_buffer(buffer, peer.buffer)]
    /\ authorization' = peer.authorization
    /\ x_api_key' = peer.x_api_key
    /\ request' = peer.request
    /\ upstream' = peer.upstream
    /\ bridge_body' = peer.bridge_body
    /\ pc' = peer.pc
    /\ api_key' = peer.api_key
    /\ caller_status' = peer.caller_status
    /\ stream_started' = peer.stream_started
    /\ backend_calls' = peer.backend_calls
    /\ backend_status' = peer.backend_status
    /\ json_response' = peer.json_response
    /\ pos' = peer.pos
    /\ out' = peer.out
    /\ payload' = peer.payload
    /\ conn_open' = peer.conn_open
    /\ error_detail' = peer.error_detail
    /\ logged' = peer.logged
    /\ buffer' = resumed_buffer(peer.buffer, buffer)
    /\ UNCHANGED default_api_key

PairInput(auth, xkey, req, up, body) ==
    [authorization |-> auth, x_api_key |-> xkey, request |-> req,
     upstream |-> up, bridge_body |-> body]

PairInputs ==
    {PairInput(None, SomeKey, StreamRequest, L_STRIP \o <<NL>>, SomeBody),
     PairInput(BEARER \o <<"k", "k">>, None,
               ChatCompletionRequest(CallerBody(MODEL_NAME, TRUE, Absent,
                                                Absent, Hi)),
               PREFIX \o T_MODEL \o <<NL>>, SomeBody),
     PairInput(None, None,
               ChatCompletionRequest(CallerBody(MODEL_NAME, FALSE, Absent,
                                                Absent, Hi)),
               SomeStream, HelloBody)}

\* an exchange that has not entered the handler, as a record
NewExchange(input) ==
    [authorization |-> input.authorization, x_api_key |-> input.x_api_key,
     request |-> input.request, upstream |-> input.upstream,
     bridge_body |-> input.bridge_body, pc |-> "start", api_key |-> <<>>,
     caller_status |-> 0, stream_started |-> FALSE, backend_calls |-> 0,
     backend_status |-> 0, json_response |-> <<>>, pos |-> 0,
     buffer |-> <<>>, out |-> <<>>, payload |-> NoPayload,
     conn_open |-> FALSE, error_detail |-> <<>>, logged |-> <<>>]

InitPair ==
    /\ default_api_key \in DefaultKeys
    /\ \E input \in PairInputs :
         /\ authorization = input.authorization
         /\ x_api_key = input.x_api_key
         /\ request = input.request
         /\ upstream = input.upstream
         /\ bridge_body = input.bridge_body
    /\ InitExchange
    /\ peer \in {NewExchange(input) : input \in PairInputs}

NextPair ==
    \/ Next
    \/ Switch

SpecPair == InitPair /\ [][NextPair]_vars

(***************************************************************************)
(* The generator run on a whole text at once: the lines yielded when the   *)
(* upstream arrives as one fragment (lines 156-204).                       *)
(***************************************************************************)
RECURSIVE RunLines(_, _, _)
RunLines(buf, o, request_model) ==
    IF Contains(buf, NL)
    THEN LET step == LineStep(SplitHead(buf), request_model)
         IN  IF step.act = "done" \/ step.act = "raise"
             THEN Emit(o, step)
             ELSE RunLines(SplitRest(buf), Emit(o, step), request_model)
    ELSE LET step == TailStep(buf, request_model)
         IN  IF step.act = "raise" THEN o
             ELSE Append(Emit(o, step), Sentinel)

(***************************************************************************)
(* Vocabulary of the properties                                            *)
(***************************************************************************)
StreamEnded == pc \in {"returned", "done", "crashed"}

Count(o, x) == Cardinality({i \in 1..Len(o) : o[i] = x})

Payload(raw) == strip(DropFirst(strip(raw), 6))

IsDataLine(raw) == strip(raw) # <<>> /\ startswith(strip(raw), PREFIX)

IsTerminatorLine(raw) == IsDataLine(raw) /\ Payload(raw) = T_DONE

IsUndecodableLine(raw) ==
    /\ IsDataLine(raw)
    /\ Payload(raw) # T_DONE
    /\ json_loads(Payload(raw)).kind = "error"

\* a "data: " line whose payload is a backend event: a JSON object whose
\* first choice, when it has one, is an object
IsEventLine(raw) ==
    /\ IsDataLine(raw)
    /\ Payload(raw) # T_DONE
    /\ json_loads(Payload(raw)).kind = "object"
    /\ LET chs == json_loads(Payload(raw)).choices
       IN  chs # <<>> => chs[1].kind = "object"

\* the backend events of the lines of a text, in order, up to its first
\* terminator line; the text after the last newline is its last line
RECURSIVE EventsBefore(_)
EventsBefore(text) ==
    LET last == ~Contains(text, NL)
        raw == IF last THEN text ELSE SplitHead(text)
        here == IF IsEventLine(raw) THEN <<json_loads(Payload(raw))>> ELSE <<>>
    IN  IF IsTerminatorLine(raw) THEN <<>>
        ELSE IF last THEN here
        ELSE here \o EventsBefore(SplitRest(text))

IsChunk(c) == c.type = "chunk"

\* the chunk is the one of the event: same id (a character that arrived in
\* two fragments reads as two replacement characters), created and delta
ChunkOf(c, event) ==
    /\ c.type = "chunk"
    /\ c.id = get(event.id, chunk_id)
       \/ (event.id = "U+00E9" /\ c.id = "U+FFFD U+FFFD")
    /\ c.created = get(event.created, created)
    /\ c.delta = get_delta(event)

BadThenGood == PREFIX \o T_BAD \o <<NL>> \o L_STRIP \o <<NL>>
OnlyTerminator == PREFIX \o T_DONE \o <<NL>>

(***************************************************************************)
(* C1: the sentinel line is yielded at most once and nothing is yielded    *)
(* after it: wherever it stands in the output, it is the last element.     *)
(***************************************************************************)
C1_SentinelIsLast ==
    \A i \in 1..Len(out) : out[i] = Sentinel => i = Len(out)

C1_Witness ==
    /\ pc = "returned"
    /\ Len(out) >= 2
    /\ out[Len(out)] = Sentinel
    /\ buffer # <<>>

(***************************************************************************)
(* C2: every streaming exchange that passed the handshake and has ended    *)
(* has yielded the sentinel, whatever the "data: " lines held.             *)
(***************************************************************************)
C2_AlwaysSentinel ==
    StreamEnded => Contains(out, Sentinel)

(***************************************************************************)
(* C3: the lines yielded do not depend on how the upstream bytes are cut   *)
(* into fragments: they are the lines yielded for the one-fragment         *)
(* delivery of the same bytes.                                             *)
(***************************************************************************)
C3_FragmentationInvariant ==
    StreamEnded => out = RunLines(decode(upstream), <<>>, request.model)

(***************************************************************************)
(* C4: every public chunk and every PublicResponse carries the model the   *)
(* caller requested, whatever the backend sent.                            *)
(***************************************************************************)
C4_RequestedModel ==
    /\ \A i \in 1..Len(out) :
         out[i].type = "chunk" => out[i].model = request.model
    /\ \A i \in 1..Len(json_response) :
         json_response[i].model = request.model

C4_Witness ==
    /\ pc = "done"
    /\ upstream = PREFIX \o T_MODEL \o <<NL>>
    /\ Len(out) = 2
    /\ out[1].model = request.model

(***************************************************************************)
(* C5: when the upstream ends with no terminator seen and the buffered     *)
(* remainder is an event line, its chunk is yielded with finish_reason     *)
(* null and is followed by exactly one sentinel.                           *)
(***************************************************************************)
C5_RemainderFlushed ==
    (pc \in {"final", "done"} /\ IsEventLine(buffer)) =>
        LET k == IF pc = "done" THEN Len(out) - 1 ELSE Len(out)
            chunk_data == json_loads(Payload(buffer))
        IN  /\ k >= 1
            /\ out[k].type = "chunk"
            /\ out[k].finish_reason = Null
            /\ out[k].id = get(chunk_data.id, chunk_id)
            /\ out[k].model = request.model
            /\ Count(out, Sentinel) = (IF pc = "done" THEN 1 ELSE 0)
            /\ pc = "done" => out[Len(out)] = Sentinel

C5_Witness ==
    /\ pc = "done"
    /\ buffer = PREFIX \o T_FIN
    /\ Len(out) = 2
    /\ out[1].finish_reason = Null

(***************************************************************************)
(* C6: a terminator line makes the generator yield the sentinel and stop:  *)
(* after the sentinel nothing is yielded and nothing is read, and a body   *)
(* that is only the terminator yields the sentinel alone.  (A generator    *)
(* the caller closes first does not get to the line.)                      *)
(***************************************************************************)
C6_TerminatorStops ==
    /\ []((upstream = OnlyTerminator /\ StreamEnded) => out = <<Sentinel>>)
    /\ [][/\ (pc = "loop" /\ IsTerminatorLine(SplitHead(buffer))
              /\ pc' # "closed") =>
               (out' = Append(out, Sentinel) /\ pc' = "returned" /\ pos' = pos)
          /\ Contains(out, Sentinel) => (out' = out /\ pos' = pos)]_vars

C6_Witness ==
    /\ pc = "returned"
    /\ out = <<Sentinel>>
    /\ \E i \in 1..Len(buffer) : IsEventLine(SubSeq(buffer, 1, i))
    /\ pos < Len(upstream)

(***************************************************************************)
(* C7: a complete "data: " line whose payload is not JSON yields nothing   *)
(* and leaves the generator where it would be without that line; the       *)
(* lines after it are still handled.  (A generator the caller closes       *)
(* first does not get to the line.)                                        *)
(***************************************************************************)
C7_BadLineSkipped ==
    /\ []((upstream = BadThenGood /\ StreamEnded) =>
            (pc = "done" /\ Len(out) = 2 /\ out[1].type = "chunk"
             /\ out[2] = Sentinel))
    /\ [][(pc = "loop" /\ IsUndecodableLine(SplitHead(buffer))
           /\ pc' # "closed") =>
            /\ out' = out
            /\ pos' = pos
            /\ buffer' = SplitRest(buffer)
            /\ pc' = IF Contains(SplitRest(buffer), NL) THEN "loop" ELSE "read"]_vars

C7_Witness ==
    /\ upstream = BadThenGood
    /\ pc = "done"
    /\ Len(out) = 2

(***************************************************************************)
(* C8: the credential is the trimmed X-API-Key when that is non-empty,     *)
(* else the Authorization value after "Bearer " trimmed, else the          *)
(* configured default when non-empty, else the 401 failure.                *)
(***************************************************************************)
MissingCredential ==
    pc = "failed" /\ caller_status = 401 /\ backend_calls = 0

C8_Precedence ==
    pc # "start" =>
        IF x_api_key # None /\ strip(x_api_key) # <<>>
        THEN ~MissingCredential /\ api_key = strip(x_api_key)
        ELSE IF authorization # None /\ startswith(authorization, BEARER)
        THEN ~MissingCredential /\ api_key = strip(DropFirst(authorization, 7))
        ELSE IF default_api_key # <<>>
        THEN ~MissingCredential /\ api_key = default_api_key
        ELSE MissingCredential

C8_Witness ==
    /\ pc = "authed"
    /\ x_api_key = <<SP, "k">>
    /\ authorization = BEARER \o <<"k", "k">>
    /\ api_key = <<"k">>

(***************************************************************************)
(* C9: get_api_key never returns an empty credential.                      *)
(***************************************************************************)
C9_NeverEmpty ==
    (pc # "start" /\ ~MissingCredential) => api_key # <<>>

(***************************************************************************)
(* C10: on the streaming path a non-success backend status reaches the     *)
(* caller as an error with that status; nothing is yielded and no stream   *)
(* response has been started toward the caller.                            *)
(***************************************************************************)
C10_StreamHandshakeError ==
    (request.stream /\ backend_status \notin {0, 200, 201}) =>
        /\ caller_status = backend_status
        /\ out = <<>>
        /\ ~stream_started

(***************************************************************************)
(* C11: on the non-streaming path a non-success backend status ends the    *)
(* exchange with an error of that same status and no PublicResponse.       *)
(***************************************************************************)
C11_JsonErrorStatus ==
    (~request.stream /\ backend_status \notin {0, 200, 201}) =>
        /\ pc = "failed"
        /\ caller_status = backend_status
        /\ json_response = <<>>

C11_Witness ==
    /\ ~request.stream
    /\ backend_status = 404
    /\ caller_status = 404
    /\ pc = "failed"

(***************************************************************************)
(* C12: the detail of the error raised for a backend error status is at    *)
(* most 500 characters long, whatever the length of the backend's body.    *)
(***************************************************************************)
C12_DetailTruncated ==
    (backend_calls > 0 /\ backend_status \notin {0, 200, 201}) =>
        Len(error_detail) <= LogLimit

(***************************************************************************)
(* C13: a backend call is issued only after get_api_key has returned a     *)
(* credential, and an exchange that fails with the missing-credential      *)
(* error has issued no backend call.                                       *)
(***************************************************************************)
C13_NoCallBeforeKey ==
    /\ backend_calls > 0 =>
         /\ pc # "start"
         /\ get_api_key(authorization, x_api_key, default_api_key).ok
         /\ api_key = get_api_key(authorization, x_api_key, default_api_key).key
    /\ error_detail = KeyRequiredDetail =>
         (pc = "failed" /\ caller_status = 401 /\ backend_calls = 0)

C13_Witness ==
    /\ pc = "failed"
    /\ error_detail = KeyRequiredDetail
    /\ request.stream
    /\ backend_calls = 0
    /\ authorization = BEARER_NOSP

(***************************************************************************)
(* C14: the backend connection is open only while the generator is inside  *)
(* its "async with" blocks; an exchange that has ended in any way (end of  *)
(* upstream, terminator, error status, error raised, generator closed by   *)
(* the consumer, non-streaming return or error) holds no connection.       *)
(***************************************************************************)
C14_ConnectionReleased ==
    pc \notin {"read", "loop", "final"} => ~conn_open

C14_Witness ==
    /\ pc = "closed"
    /\ ~conn_open
    /\ backend_calls = 1
    /\ Len(out) >= 1

(***************************************************************************)
(* C15: the PublicResponse has the content of the first backend choice,    *)
(* or "" when there is none, the backend's usage counters, or 0 for those  *)
(* it leaves out, and finish_reason "stop" whatever the backend reported;  *)
(* the body with content "hello" and usage 3/1/4 gives "hello", "stop"     *)
(* and 3/1/4.                                                              *)
(***************************************************************************)
C15_ResponseMapping ==
    /\ pc = "responded" =>
         LET r == json_response[1]
             b == bridge_body
         IN  /\ Len(json_response) = 1
             /\ r.content = (IF b.choices = <<>> THEN ""
                             ELSE IF b.choices[1].content = Absent THEN ""
                             ELSE b.choices[1].content)
             /\ r.finish_reason = "stop"
             /\ \A k \in UsageKeys :
                  r.usage[k] = (IF k \in DOMAIN b.usage THEN b.usage[k] ELSE 0)
    /\ (~request.stream /\ backend_status \in {200, 201}
        /\ bridge_body.kind = "object"
        /\ (bridge_body.choices # <<>> => bridge_body.choices[1].kind = "object"))
       => pc = "responded"
    /\ (pc = "responded" /\ bridge_body = HelloBody) =>
         /\ json_response[1].content = "hello"
         /\ json_response[1].usage["prompt_tokens"] = 3
         /\ json_response[1].usage["completion_tokens"] = 1
         /\ json_response[1].usage["total_tokens"] = 4

C15_Witness ==
    /\ pc = "responded"
    /\ bridge_body = HelloBody
    /\ json_response[1].content = "hello"
    /\ json_response[1].finish_reason = "stop"

(***************************************************************************)
(* C16: the payload sent to the backend has the fixed backend model, the   *)
(* caller's streaming intent, the messages as role and content pairs, and  *)
(* temperature and max_tokens only when the caller supplied them, never    *)
(* as null.                                                                *)
(***************************************************************************)
C16_PayloadShape ==
    backend_calls > 0 =>
        /\ payload.model = BRIDGE_MODEL
        /\ payload.stream = request.stream
        /\ Len(payload.messages) = Len(request.messages)
        /\ \A i \in 1..Len(payload.messages) :
             payload.messages[i] = [role |-> request.messages[i].role,
                                    content |-> request.messages[i].content]
        /\ payload.temperature # Null
        /\ payload.max_tokens # Null
        /\ payload.temperature # Absent => "temperature" \in request.fields_set
        /\ payload.max_tokens # Absent => "max_tokens" \in request.fields_set

(***************************************************************************)
(* C17: the chunk yielded for a decoded event of a complete "data: " line  *)
(* has the delta and the finish_reason of the first element of the event's *)
(* choices when there is one, and the empty delta and a null finish_reason *)
(* when there is none.                                                     *)
(***************************************************************************)
C17_FirstChoiceSupplies ==
    [][(pc = "loop" /\ IsEventLine(SplitHead(buffer)) /\ pc' # "closed") =>
         LET chs == json_loads(Payload(SplitHead(buffer))).choices
             c == out'[Len(out')]
         IN  /\ Len(out') = Len(out) + 1
             /\ c.type = "chunk"
             /\ IF chs # <<>>
                THEN /\ c.delta = get(chs[1].delta, "{}")
                     /\ c.finish_reason = get(chs[1].finish_reason, Null)
                ELSE /\ c.delta = "{}"
                     /\ c.finish_reason = Null]_vars

(***************************************************************************)
(* C18: the chunks yielded are, one for one and in the same order, the     *)
(* chunks of the decodable "data: " event lines of the upstream before its *)
(* first terminator line: at any moment a prefix of them, and all of them  *)
(* once the sentinel is yielded, which comes last; other lines yield       *)
(* nothing.                                                                *)
(***************************************************************************)
C18_OrderPreserved ==
    LET events == EventsBefore(decode(upstream))
        chunks == SelectSeq(out, IsChunk)
    IN  /\ Len(chunks) <= Len(events)
        /\ \A i \in 1..Len(chunks) : ChunkOf(chunks[i], events[i])
        /\ Contains(out, Sentinel) =>
             /\ Len(chunks) = Len(events)
             /\ out = Append(chunks, Sentinel)

C18_Witness ==
    /\ pc = "done"
    /\ Len(out) = 3
    /\ out[1].id = "U+00E9"
    /\ out[2].id = chunk_id
    /\ out[3] = Sentinel
    /\ Len(EventsBefore(decode(upstream))) = 2

(***************************************************************************)
(* C19: whenever the generator waits for the next fragment its buffer has  *)
(* no newline: every complete line received was extracted.                 *)
(***************************************************************************)
C19_NoBufferedLine ==
    pc = "read" => ~Contains(buffer, NL)

C19_Witness ==
    /\ pc = "read"
    /\ buffer # <<>>
    /\ Len(out) = 1
    /\ pos < Len(upstream)

(***************************************************************************)
(* C20: two exchanges interleaved at their awaits and yields are           *)
(* independent: each one's credential, requested model, buffer, yielded    *)
(* lines and response are those of its own inputs, as when it runs alone,  *)
(* and a step of the running exchange leaves the suspended one as it was.  *)
(***************************************************************************)
IsPrefix(s, t) == Len(s) <= Len(t) /\ s = SubSeq(t, 1, Len(s))

\* the state of exchange e is one of a run of its own inputs
RunsAlone(e) ==
    /\ e.backend_calls > 0 =>
         LET r == get_api_key(e.authorization, e.x_api_key, default_api_key)
         IN  r.ok /\ e.api_key = r.key
    /\ e.backend_calls > 0 =>
         e.payload = bridge_payload(role_content(e.request.messages),
                                    e.request.stream,
                                    e.request.temperature,
                                    e.request.max_tokens)
    /\ \A i \in 1..Len(e.out) :
         e.out[i].type = "chunk" => e.out[i].model = e.request.model
    /\ IsPrefix(e.out, RunLines(decode(e.upstream), <<>>, e.request.model))
    /\ e.pc \in {"returned", "done", "crashed"} =>
         e.out = RunLines(decode(e.upstream), <<>>, e.request.model)
    /\ e.pos \in 0..Len(e.upstream)
    /\ \E k \in 0..e.pos :
         e.buffer = decode(SubSeq(e.upstream, k + 1, e.pos))
    /\ e.pc = "responded" =>
         e.json_response =
             <<transform_response_to_openai(e.bridge_body, e.request.model)>>

C20_Independent ==
    /\ [](RunsAlone(Self) /\ (peer # NoPeer => RunsAlone(peer)))
    /\ [][peer' = peer \/ (peer' = Self /\ Self' = peer)]_vars

C20_Witness ==
    /\ peer # NoPeer
    /\ pc = "read" /\ buffer # <<>> /\ pos < Len(upstream)
    /\ peer.pc = "read" /\ peer.buffer # <<>> /\ peer.pos < Len(peer.upstream)
    /\ buffer # peer.buffer
    /\ request.model # peer.request.model

====
